---- MODULE Spec2Model ----
(***************************************************************************)
(* Story lifecycle, feed visibility and engagement side effects of the    *)
(* social-media backend: routes/stories.js, routes/posts.js,              *)
(* routes/interactions.js and the story expiration job of server.js.      *)
(*                                                                         *)
(* Every route handler is an async function; each `await` is a point      *)
(* where other handlers and the cron job may run.  A request in flight    *)
(* occupies a slot of `req`, which keeps the handler's position (pc) and  *)
(* its local variables; when the handler responds, the slot is freed and  *)
(* `resp` holds the response together with the request it answers, until  *)
(* the next step.                                                          *)
(*                                                                         *)
(* The handlers are modelled from the statement after the                 *)
(* express-validator prelude (`validationResult(req)`), i.e. for a        *)
(* request whose body passed validation.                                  *)
(*                                                                         *)
(* A GET request reaches its handler through the router, which tries the  *)
(* routes in the order of their registration (StoriesGet, PostsGet).      *)
(* The two queries of a feed handler are read-only and are taken as one   *)
(* step.                                                                   *)
(***************************************************************************)
EXTENDS Integers, Sequences, FiniteSets, TLC

\* ---------------------------------------------------------------- bounds
MaxDays == 1
MaxStories == 2
MaxPosts == 1
MaxRequests == 3

\* ------------------------------------------------------ program constants
Hour == 60 * 60 * 1000
Day == 24 * Hour
\* stories.js: expiresAt: new Date(Date.now() + 24 * 60 * 60 * 1000)
TTL == 24 * 60 * 60 * 1000

Users == {"u1", "u2"}
Slots == {1, 2}
TickSteps == {Hour, Day}
\* the times of day the clock is observed at: midnight and one hour past
DayTimes == {0, Hour}
StoryIds == 1..MaxStories
PostIds == 1..MaxPosts
Texts == {"hi"}
\* the last segment of a GET path, and the page and limit query parameters
\* (0: the parameter is absent)
StorySegs == Users \cup {"feed"}
PostSegs == {ToString(i) : i \in PostIds} \cup {"feed"}
Pages == {0, 1, 2}
Limits == {0, 1}

VARIABLES
    now,            \* the wall clock, ms since the epoch (Date.now())
    stories,        \* the Story collection: _id -> document
    posts,          \* the Post collection: _id -> document
    uploads,        \* number of uploads made to each media folder
    media,          \* public_ids the media host currently holds
    destroyCalls,   \* public_ids cloudinary.uploader.destroy was invoked with
    storyViews,     \* the StoryView collection: <<storyId, userId>> -> number of rows
    likes,          \* the Like collection: <<postId, userId>> -> number of rows
    comments,       \* the Comment collection, in insertion order
    follows,        \* the Follow collection: <<followerId, followedId>> -> number of rows
    notifications,  \* the Notification collection, in insertion order
    req,            \* the requests in flight: the handler's position and locals
    resp,           \* the response the last step sent, with the request it answers
    nreq            \* requests received so far

vars == <<now, stories, posts, uploads, media, destroyCalls, storyViews,
          likes, comments, follows, notifications, req, resp, nreq>>

storeVars == <<stories, posts, storyViews, likes, comments, follows, notifications>>
mediaVars == <<uploads, media, destroyCalls>>

\* ------------------------------------------------------------- requests
IdleReq ==
    [op |-> "idle", pc |-> "none", userId |-> "none", id |-> 0, target |-> "none",
     page |-> 0, limit |-> 0, status |-> 0, doc |-> <<>>, at |-> 0, result |-> {}]

NewReq(o, u, i, p) ==
    [op |-> o, pc |-> p, userId |-> u, id |-> i, target |-> "none",
     page |-> 0, limit |-> 0, status |-> 0, doc |-> <<>>, at |-> 0, result |-> {}]

Free(s) == req[s].op = "idle"

\* a new request is taken by the first slot that is not running a handler
CanStart(s) ==
    /\ Free(s)
    /\ \A r \in Slots : r < s => ~Free(r)
    /\ nreq < MaxRequests

At(s, o, p) == req[s].op = o /\ req[s].pc = p

\* res.status(code).json(...): the handler of request r, in slot s, answers;
\* r.pc stays the call at which it answered
Reply(s, r, code) ==
    /\ req' = [req EXCEPT ![s] = IdleReq]
    /\ resp' = [r EXCEPT !.status = code]

\* the handler of slot s awaits its next call with locals r
Await(s, r) ==
    /\ req' = [req EXCEPT ![s] = r]
    /\ resp' = IdleReq

\* ------------------------------------------------------------ the store
\* Model.findById: the document, or null (the empty sequence)
FindStoryById(id) == IF id \in DOMAIN stories THEN <<stories[id]>> ELSE <<>>
FindPostById(id) == IF id \in DOMAIN posts THEN <<posts[id]>> ELSE <<>>

Without(f, id) == [k \in DOMAIN f \ {id} |-> f[k]]
With(f, id, d) == [k \in DOMAIN f \cup {id} |-> IF k = id THEN d ELSE f[k]]

Notif(to, type, from, postId, storyId) ==
    [userId |-> to, type |-> type, fromUserId |-> from, postId |-> postId,
     storyId |-> storyId]

NotifsOf(type) == {i \in DOMAIN notifications : notifications[i].type = type}

\* --------------------------------------------------------------- routing
\* the routes of routes/stories.js and routes/posts.js, in the order of
\* their registration; a path is the sequence of its segments
StoriesRouter ==
    << [method |-> "POST", path |-> <<>>, handler |-> "createStory"],
       [method |-> "GET", path |-> <<":userId">>, handler |-> "userStories"],
       [method |-> "GET", path |-> <<"feed">>, handler |-> "storiesFeed"],
       [method |-> "POST", path |-> <<":id", "view">>, handler |-> "view"],
       [method |-> "DELETE", path |-> <<":id">>, handler |-> "deleteStory"] >>

PostsRouter ==
    << [method |-> "POST", path |-> <<>>, handler |-> "createPost"],
       [method |-> "GET", path |-> <<":id">>, handler |-> "getPost"],
       [method |-> "GET", path |-> <<"feed">>, handler |-> "postsFeed"],
       [method |-> "DELETE", path |-> <<":id">>, handler |-> "deletePost"] >>

\* a segment of a route path that is a named parameter matches any segment
IsParam(pat) == pat \in {":userId", ":id"}

RouteMatches(route, method, path) ==
    /\ route.method = method
    /\ Len(route.path) = Len(path)
    /\ \A i \in 1..Len(path) : IsParam(route.path[i]) \/ route.path[i] = path[i]

\* express hands the request to the first registered route that matches
Dispatch(router, method, path) ==
    LET hits == {i \in 1..Len(router) : RouteMatches(router[i], method, path)}
    IN IF hits = {} THEN "none"
       ELSE router[CHOOSE i \in hits : \A j \in hits : i <= j].handler

\* what a path segment is cast to where the schema wants an ObjectId: the
\* id, or nothing (mongoose throws a CastError)
CastUserId(seg) == IF seg \in Users THEN <<seg>> ELSE <<>>
CastPostId(seg) ==
    IF \E i \in PostIds : ToString(i) = seg
    THEN <<CHOOSE i \in PostIds : ToString(i) = seg>>
    ELSE <<>>

\* ------------------------------------------------------- story visibility
\* the filter of Story.find in GET /:userId and GET /feed:
\*   isActive: true, expiresAt: { $gt: new Date() }
ActiveFilter(story, t) == story.isActive = TRUE /\ story.expiresAt > t

\* GET /:userId
UserStories(uid, t) ==
    {id \in DOMAIN stories : stories[id].userId = uid /\ ActiveFilter(stories[id], t)}

\* GET /feed (stories): Follow.find({ followerId: userId }).select('followedId')
FollowedIds(uid) == {v \in Users : follows[<<uid, v>>] > 0}

StoriesFeed(uid, t) ==
    {id \in DOMAIN stories :
        stories[id].userId \in FollowedIds(uid) /\ ActiveFilter(stories[id], t)}

\* the view check without its expiry test
ViewRejectedIgnoresExpiry(doc, t) ==
    doc = <<>> \/ ~doc[1].isActive

\* POST /:id/view: if (!story || !story.isActive || story.expiresAt < new Date()) -> 404
ViewRejected(doc, t) ==
    doc = <<>> \/ ~doc[1].isActive \/ doc[1].expiresAt < t

\* ------------------------------------------------------------- the clock
ClockOk(t) ==
    /\ t \div Day <= MaxDays
    /\ t % Day \in DayTimes

Tick(d) ==
    /\ ClockOk(now + d)
    /\ now' = now + d
    /\ resp' = IdleReq
    /\ UNCHANGED <<storeVars, mediaVars, req, nreq>>

\* ------------------------------------------------- story expiration job
\* cron.schedule('0 0 * * *', ...): midnight, every day
CronDue(t) == t % Day = 0

\* the sweep's filter with $lt in place of $lte
ExpiredFilterStrict(story, t) == story.expiresAt < t

\* Story.updateMany({ expiresAt: { $lte: new Date() } }, { isActive: false })
ExpiredFilter(story, t) == story.expiresAt <= t

\* the sweep with an empty filter: every story is deactivated
UpdateManyAll(coll, t) ==
    [id \in DOMAIN coll |-> [coll[id] EXCEPT !.isActive = FALSE]]

\* the sweep deleting the expired stories instead of flagging them
UpdateManyDeletes(coll, t) ==
    [id \in {i \in DOMAIN coll : ~ExpiredFilter(coll[i], t)} |-> coll[id]]

\* the sweep flipping the flag of the expired stories instead of clearing it
UpdateManyToggle(coll, t) ==
    [id \in DOMAIN coll |->
        IF ExpiredFilter(coll[id], t) THEN [coll[id] EXCEPT !.isActive = ~@]
        ELSE coll[id]]

UpdateManyExpired(coll, t) ==
    [id \in DOMAIN coll |->
        IF ExpiredFilter(coll[id], t) THEN [coll[id] EXCEPT !.isActive = FALSE]
        ELSE coll[id]]

SweepExpired ==
    /\ CronDue(now)
    /\ stories' = UpdateManyExpired(stories, now)
    /\ resp' = IdleReq
    /\ UNCHANGED <<now, comments, posts, storyViews, likes, follows, notifications,
                   mediaVars, req, nreq>>

\* ------------------------------------------------------- POST /api/stories
\* if (!req.file): 400
CreateStoryNoFile(s, u) ==
    /\ CanStart(s)
    /\ Reply(s, NewReq("createStory", u, 0, "start"), 400)
    /\ nreq' = nreq + 1
    /\ UNCHANGED <<now, storeVars, mediaVars>>

\* new Story({ userId, mediaId: result.public_id, expiresAt: Date.now() + 24h })
\* isActive and createdAt take the schema defaults (true, Date.now)
NewStory(u, mediaId, t) ==
    [userId |-> u, mediaId |-> mediaId, createdAt |-> t, expiresAt |-> t + TTL,
     isActive |-> TRUE]

\* cloudinary.uploader.upload resolves; the Story document is built and
\* story.save() is issued.  The upload may reject instead: 500.
CreateStoryUpload(s, u) ==
    /\ CanStart(s)
    /\ uploads["stories"] < MaxStories
    /\ nreq' = nreq + 1
    /\ \/ LET n == uploads["stories"] + 1
              mid == <<"stories", n>>
          IN /\ uploads' = [uploads EXCEPT !["stories"] = n]
             /\ media' = media \cup {mid}
             /\ Await(s, [NewReq("createStory", u, n, "save") EXCEPT
                            !.doc = <<NewStory(u, mid, now)>>])
       \/ /\ Reply(s, NewReq("createStory", u, 0, "upload"), 500)
          /\ UNCHANGED <<uploads, media>>
    /\ UNCHANGED <<now, storeVars, destroyCalls>>

\* story.save() resolves: 201
CreateStorySave(s) ==
    /\ At(s, "createStory", "save")
    /\ stories' = With(stories, req[s].id, req[s].doc[1])
    /\ Reply(s, req[s], 201)
    /\ UNCHANGED <<now, comments, posts, storyViews, likes, follows, notifications,
                   mediaVars, nreq>>

\* ------------------------------------------------ GET /api/stories/:userId
\* Story.find({ userId: req.params.userId, ... }) rejects with a CastError
\* when the parameter is no ObjectId, and the catch block answers 500
GetUserStories(s, uid) ==
    /\ CanStart(s)
    /\ LET r == [NewReq("userStories", "none", 0, "start") EXCEPT
                    !.target = uid, !.at = now]
       IN IF CastUserId(uid) = <<>> THEN Reply(s, r, 500)
          ELSE Reply(s, [r EXCEPT !.result = UserStories(uid, now)], 200)
    /\ nreq' = nreq + 1
    /\ UNCHANGED <<now, storeVars, mediaVars>>

\* -------------------------------------------------- GET /api/stories/feed
GetStoriesFeed(s, u) ==
    /\ CanStart(s)
    /\ Reply(s, [NewReq("storiesFeed", u, 0, "start") EXCEPT
                    !.at = now, !.result = StoriesFeed(u, now)], 200)
    /\ nreq' = nreq + 1
    /\ UNCHANGED <<now, storeVars, mediaVars>>

\* GET /api/stories/<seg> by user u, as the stories router dispatches it
StoriesGet(s, u, seg) ==
    /\ CanStart(s)
    /\ LET h == Dispatch(StoriesRouter, "GET", <<seg>>)
       IN IF h = "userStories" THEN GetUserStories(s, seg)
          ELSE h = "storiesFeed" /\ GetStoriesFeed(s, u)

\* ---------------------------------------------- POST /api/stories/:id/view
\* Story.findById and the visibility check
ViewCheck(s, u, id) ==
    /\ CanStart(s)
    /\ nreq' = nreq + 1
    /\ LET story == FindStoryById(id)
           r == [NewReq("view", u, id, "check") EXCEPT !.doc = story, !.at = now]
       IN IF ViewRejected(story, now) THEN Reply(s, r, 404)
          ELSE Await(s, [r EXCEPT !.pc = "createView"])
    /\ UNCHANGED <<now, storeVars, mediaVars>>

\* StoryView.create({ storyId, userId })
ViewCreate(s) ==
    /\ At(s, "view", "createView")
    /\ storyViews' = [storyViews EXCEPT ![<<req[s].id, req[s].userId>>] = @ + 1]
    /\ Await(s, [req[s] EXCEPT !.pc = "notify"])
    /\ UNCHANGED <<now, comments, stories, posts, likes, follows, notifications,
                   mediaVars, nreq>>

\* Notification.create({ userId: story.userId, type: 'story_view', ... }): 200
ViewNotify(s) ==
    /\ At(s, "view", "notify")
    /\ notifications' = Append(notifications,
            Notif(req[s].doc[1].userId, "story_view", req[s].userId, 0, req[s].id))
    /\ Reply(s, req[s], 200)
    /\ UNCHANGED <<now, comments, stories, posts, storyViews, likes, follows,
                   mediaVars, nreq>>

\* ------------------------------------- DELETE /api/stories/:id, /api/posts/:id
\* the checks of the delete handlers without the ownership test
DeleteCheckAnyUser(s, r) ==
    IF r.doc = <<>> THEN Reply(s, r, 404)
    ELSE Await(s, [r EXCEPT !.pc = "destroy"])

\* findById; 404 when missing, 403 when the requester is not the owner
DeleteCheck(s, r) ==
    IF r.doc = <<>> THEN Reply(s, r, 404)
    ELSE IF r.doc[1].userId # r.userId THEN Reply(s, r, 403)
    ELSE Await(s, [r EXCEPT !.pc = "destroy"])

\* a destroy call that resolves without deleting the media
DestroyKeepsMedia(s) ==
    /\ destroyCalls' = destroyCalls \cup {req[s].doc[1].mediaId}
    /\ media' = media
    /\ \/ Await(s, [req[s] EXCEPT !.pc = "remove"])
       \/ Reply(s, req[s], 500)
    /\ UNCHANGED <<now, storeVars, uploads, nreq>>

\* await cloudinary.uploader.destroy(mediaId): resolves, or rejects and the
\* catch block answers 500
Destroy(s) ==
    /\ destroyCalls' = destroyCalls \cup {req[s].doc[1].mediaId}
    /\ \/ /\ media' = media \ {req[s].doc[1].mediaId}
          /\ Await(s, [req[s] EXCEPT !.pc = "remove"])
       \/ /\ media' = media
          /\ Reply(s, req[s], 500)
    /\ UNCHANGED <<now, storeVars, uploads, nreq>>

\* await doc.remove(): resolves and the handler answers 200, or rejects: 500
Remove(s, coll) ==
    \/ /\ coll' = Without(coll, req[s].id)
       /\ Reply(s, req[s], 200)
    \/ /\ coll' = coll
       /\ Reply(s, req[s], 500)

DeleteStoryCheck(s, u, id) ==
    /\ CanStart(s)
    /\ nreq' = nreq + 1
    /\ DeleteCheck(s, [NewReq("deleteStory", u, id, "check") EXCEPT
                            !.doc = FindStoryById(id)])
    /\ UNCHANGED <<now, storeVars, mediaVars>>

DeleteStoryDestroy(s) ==
    /\ At(s, "deleteStory", "destroy")
    /\ Destroy(s)

DeleteStoryRemove(s) ==
    /\ At(s, "deleteStory", "remove")
    /\ Remove(s, stories)
    /\ UNCHANGED <<now, comments, posts, storyViews, likes, follows, notifications,
                   mediaVars, nreq>>

\* -------------------------------------------------------- POST /api/posts
\* new Post({ userId, mediaId: result.public_id, ... }); createdAt: Date.now
NewPost(u, mediaId, t) == [userId |-> u, mediaId |-> mediaId, createdAt |-> t]

CreatePostUpload(s, u) ==
    /\ CanStart(s)
    /\ uploads["posts"] < MaxPosts
    /\ nreq' = nreq + 1
    /\ \/ LET n == uploads["posts"] + 1
              mid == <<"posts", n>>
          IN /\ uploads' = [uploads EXCEPT !["posts"] = n]
             /\ media' = media \cup {mid}
             /\ Await(s, [NewReq("createPost", u, n, "save") EXCEPT
                            !.doc = <<NewPost(u, mid, now)>>])
       \/ /\ Reply(s, NewReq("createPost", u, 0, "upload"), 500)
          /\ UNCHANGED <<uploads, media>>
    /\ UNCHANGED <<now, storeVars, destroyCalls>>

CreatePostSave(s) ==
    /\ At(s, "createPost", "save")
    /\ posts' = With(posts, req[s].id, req[s].doc[1])
    /\ Reply(s, req[s], 201)
    /\ UNCHANGED <<now, comments, stories, storyViews, likes, follows, notifications,
                   mediaVars, nreq>>

DeletePostCheck(s, u, id) ==
    /\ CanStart(s)
    /\ nreq' = nreq + 1
    /\ DeleteCheck(s, [NewReq("deletePost", u, id, "check") EXCEPT
                            !.doc = FindPostById(id)])
    /\ UNCHANGED <<now, storeVars, mediaVars>>

DeletePostDestroy(s) ==
    /\ At(s, "deletePost", "destroy")
    /\ Destroy(s)

DeletePostRemove(s) ==
    /\ At(s, "deletePost", "remove")
    /\ Remove(s, posts)
    /\ UNCHANGED <<now, comments, stories, storyViews, likes, follows, notifications,
                   mediaVars, nreq>>

\* ---------------------------------------------------- GET /api/posts/:id
\* Post.findById(req.params.id): CastError -> 500, null -> 404, else the post
GetPost(s, seg) ==
    /\ CanStart(s)
    /\ nreq' = nreq + 1
    /\ LET r == [NewReq("getPost", "none", 0, "start") EXCEPT !.target = seg]
           id == CastPostId(seg)
       IN IF id = <<>> THEN Reply(s, r, 500)
          ELSE IF FindPostById(id[1]) = <<>> THEN Reply(s, [r EXCEPT !.id = id[1]], 404)
          ELSE Reply(s, [r EXCEPT !.id = id[1], !.doc = FindPostById(id[1])], 200)
    /\ UNCHANGED <<now, storeVars, mediaVars>>

\* --------------------------------------------------- GET /api/posts/feed
DefaultPage == 1
DefaultLimit == 20

\* parseInt(req.query.x) || dflt: an absent parameter (NaN) and 0 are
\* falsy and give the default; an absent parameter is written 0 here
ParseIntOr(q, dflt) == IF q = 0 THEN dflt ELSE q

\* const skip = (page - 1) * limit
SkipOf(page, limit) == (page - 1) * limit

\* Post.find({ userId: { $in: followedIds } })
FeedPosts(uid) == {id \in DOMAIN posts : posts[id].userId \in FollowedIds(uid)}

\* .sort({ createdAt: -1 }): the orders of ids by createdAt descending; the
\* order among posts of equal createdAt is the store's choice
SortedDesc(ids) ==
    {f \in [1..Cardinality(ids) -> ids] :
        /\ \A i, j \in DOMAIN f : i # j => f[i] # f[j]
        /\ \A i, j \in DOMAIN f : i < j => posts[f[i]].createdAt >= posts[f[j]].createdAt}

\* .skip(skip).limit(limit)
SkipLimit(ord, skip, limit) ==
    [i \in 1..(IF Len(ord) - skip < limit
               THEN (IF Len(ord) > skip THEN Len(ord) - skip ELSE 0)
               ELSE limit) |-> ord[skip + i]]

\* the feed handler: Follow.find, then Post.find().sort().skip().limit(): 200
GetPostsFeed(s, u, pageQ, limitQ) ==
    /\ CanStart(s)
    /\ nreq' = nreq + 1
    /\ LET page == ParseIntOr(pageQ, DefaultPage)
           limit == ParseIntOr(limitQ, DefaultLimit)
           skip == SkipOf(page, limit)
       IN \E ord \in SortedDesc(FeedPosts(u)) :
            Reply(s, [NewReq("postsFeed", u, 0, "start") EXCEPT
                        !.target = "feed", !.page = page, !.limit = limit,
                        !.doc = SkipLimit(ord, skip, limit)], 200)
    /\ UNCHANGED <<now, storeVars, mediaVars>>

\* GET /api/posts/<seg>?page=&limit= by user u, as the posts router
\* dispatches it
PostsGet(s, u, seg, pageQ, limitQ) ==
    /\ CanStart(s)
    /\ LET h == Dispatch(PostsRouter, "GET", <<seg>>)
       IN IF h = "getPost" THEN GetPost(s, seg)
          ELSE h = "postsFeed" /\ GetPostsFeed(s, u, pageQ, limitQ)

\* ---------------------------------------------- POST /api/interactions/like
\* the unique index on (postId, userId) of the Like collection
LikeIndexAdmits(postId, userId) == likes[<<postId, userId>>] = 0

\* Like.findOne({ postId, userId }); 400 'Already liked' when it exists
LikeFind(s, u, id) ==
    /\ CanStart(s)
    /\ nreq' = nreq + 1
    /\ LET r == NewReq("like", u, id, "find")
       IN IF likes[<<id, u>>] > 0 THEN Reply(s, r, 400)
          ELSE Await(s, [r EXCEPT !.pc = "save"])
    /\ UNCHANGED <<now, storeVars, mediaVars>>

\* like.save(): the index rejects a duplicate and the catch block answers 500
LikeSave(s) ==
    /\ At(s, "like", "save")
    /\ IF LikeIndexAdmits(req[s].id, req[s].userId)
       THEN /\ likes' = [likes EXCEPT ![<<req[s].id, req[s].userId>>] = @ + 1]
            /\ Await(s, [req[s] EXCEPT !.pc = "findPost"])
       ELSE /\ likes' = likes
            /\ Reply(s, req[s], 500)
    /\ UNCHANGED <<now, comments, stories, posts, storyViews, follows, notifications,
                   mediaVars, nreq>>

\* const post = await Post.findById(postId)
LikeFindPost(s) ==
    /\ At(s, "like", "findPost")
    /\ Await(s, [req[s] EXCEPT !.pc = "notify", !.doc = FindPostById(req[s].id)])
    /\ UNCHANGED <<now, storeVars, mediaVars, nreq>>

\* Notification.create({ userId: post.userId, type: 'like', ... }): 200;
\* post.userId throws a TypeError when post is null: 500
LikeNotify(s) ==
    /\ At(s, "like", "notify")
    /\ IF req[s].doc = <<>>
       THEN /\ notifications' = notifications
            /\ Reply(s, req[s], 500)
       ELSE /\ notifications' = Append(notifications,
                    Notif(req[s].doc[1].userId, "like", req[s].userId, req[s].id, 0))
            /\ Reply(s, req[s], 200)
    /\ UNCHANGED <<now, comments, stories, posts, storyViews, likes, follows,
                   mediaVars, nreq>>

\* -------------------------------------------- DELETE /api/interactions/like
\* a deleteOne that inserts the row when no row matches
DeleteOneToggle(coll, k) == [coll EXCEPT ![k] = IF @ > 0 THEN @ - 1 ELSE 1]

\* Model.deleteOne(filter): removes one row matching the filter, if any
DeleteOne(coll, k) == [coll EXCEPT ![k] = IF @ > 0 THEN @ - 1 ELSE 0]

\* Like.deleteOne({ postId, userId }): 200
Unlike(s, u, id) ==
    /\ CanStart(s)
    /\ nreq' = nreq + 1
    /\ likes' = DeleteOne(likes, <<id, u>>)
    /\ Reply(s, NewReq("unlike", u, id, "start"), 200)
    /\ UNCHANGED <<now, comments, stories, posts, storyViews, follows, notifications, mediaVars>>

\* ------------------------------------------- POST /api/interactions/comment
\* new Comment({ postId, userId, text })
NewComment(postId, u, text) == [postId |-> postId, userId |-> u, text |-> text]

\* comment.save(): the Comment collection is append-only, no unique index
CommentSave(s, u, id, text) ==
    /\ CanStart(s)
    /\ nreq' = nreq + 1
    /\ comments' = Append(comments, NewComment(id, u, text))
    /\ Await(s, [NewReq("comment", u, id, "findPost") EXCEPT
                    !.result = {NewComment(id, u, text)}])
    /\ UNCHANGED <<now, stories, posts, storyViews, likes, follows, notifications,
                   mediaVars>>

\* const post = await Post.findById(postId)
CommentFindPost(s) ==
    /\ At(s, "comment", "findPost")
    /\ Await(s, [req[s] EXCEPT !.pc = "notify", !.doc = FindPostById(req[s].id)])
    /\ UNCHANGED <<now, storeVars, mediaVars, nreq>>

\* Notification.create({ userId: post.userId, type: 'comment', ... }): 201;
\* post.userId throws a TypeError when post is null: 500
CommentNotify(s) ==
    /\ At(s, "comment", "notify")
    /\ IF req[s].doc = <<>>
       THEN /\ notifications' = notifications
            /\ Reply(s, req[s], 500)
       ELSE /\ notifications' = Append(notifications,
                    Notif(req[s].doc[1].userId, "comment", req[s].userId, req[s].id, 0))
            /\ Reply(s, req[s], 201)
    /\ UNCHANGED <<now, comments, stories, posts, storyViews, likes, follows,
                   mediaVars, nreq>>

\* -------------------------------------------- POST /api/interactions/follow
\* the unique index on (followerId, followedId) of the Follow collection
FollowIndexAdmits(followerId, followedId) == follows[<<followerId, followedId>>] = 0

\* 400 'Cannot follow yourself'; Follow.findOne: 400 'Already following'
FollowCheck(s, u, v) ==
    /\ CanStart(s)
    /\ nreq' = nreq + 1
    /\ LET r == [NewReq("follow", u, 0, "find") EXCEPT !.target = v]
       IN IF u = v \/ follows[<<u, v>>] > 0 THEN Reply(s, r, 400)
          ELSE Await(s, [r EXCEPT !.pc = "save"])
    /\ UNCHANGED <<now, storeVars, mediaVars>>

\* follow.save()
FollowSave(s) ==
    /\ At(s, "follow", "save")
    /\ IF FollowIndexAdmits(req[s].userId, req[s].target)
       THEN /\ follows' = [follows EXCEPT ![<<req[s].userId, req[s].target>>] = @ + 1]
            /\ Await(s, [req[s] EXCEPT !.pc = "notify"])
       ELSE /\ follows' = follows
            /\ Reply(s, req[s], 500)
    /\ UNCHANGED <<now, comments, stories, posts, storyViews, likes, notifications,
                   mediaVars, nreq>>

\* Notification.create({ userId: followedId, type: 'follow', fromUserId }): 200
FollowNotify(s) ==
    /\ At(s, "follow", "notify")
    /\ notifications' = Append(notifications,
            Notif(req[s].target, "follow", req[s].userId, 0, 0))
    /\ Reply(s, req[s], 200)
    /\ UNCHANGED <<now, comments, stories, posts, storyViews, likes, follows,
                   mediaVars, nreq>>

\* ------------------------------------------ DELETE /api/interactions/follow
\* Follow.deleteOne({ followerId: userId, followedId }): 200
Unfollow(s, u, v) ==
    /\ CanStart(s)
    /\ nreq' = nreq + 1
    /\ follows' = DeleteOne(follows, <<u, v>>)
    /\ Reply(s, [NewReq("unfollow", u, 0, "start") EXCEPT !.target = v], 200)
    /\ UNCHANGED <<now, comments, stories, posts, storyViews, likes, notifications,
                   mediaVars>>

\* ---------------------------------------------------------------- Init
Init ==
    /\ now = 0
    /\ stories = <<>>
    /\ posts = <<>>
    /\ uploads = [k \in {"stories", "posts"} |-> 0]
    /\ media = {}
    /\ destroyCalls = {}
    /\ storyViews = [k \in StoryIds \X Users |-> 0]
    /\ likes = [k \in PostIds \X Users |-> 0]
    /\ comments = <<>>
    /\ follows = [k \in Users \X Users |-> 0]
    /\ notifications = <<>>
    /\ req = [s \in Slots |-> IdleReq]
    /\ resp = IdleReq
    /\ nreq = 0

\* the ids a request names: the ids issued so far and one id not yet
\* issued (every id not yet issued is equally unknown to the store)
KnownStoryIds == {id \in StoryIds : id <= uploads["stories"] + 1}
KnownPostIds == {id \in PostIds : id <= uploads["posts"] + 1}

\* the clock and the cron job
TimeNext ==
    \/ \E d \in TickSteps : Tick(d)
    \/ SweepExpired

CreateStoryNext ==
    \/ \E s \in Slots, u \in Users : CreateStoryNoFile(s, u)
    \/ \E s \in Slots, u \in Users : CreateStoryUpload(s, u)
    \/ \E s \in Slots : CreateStorySave(s)

ReadStoryNext ==
    \E s \in Slots, u \in Users, seg \in StorySegs : StoriesGet(s, u, seg)

ViewNext ==
    \/ \E s \in Slots, u \in Users, id \in KnownStoryIds : ViewCheck(s, u, id)
    \/ \E s \in Slots : ViewCreate(s)
    \/ \E s \in Slots : ViewNotify(s)

DeleteStoryNext ==
    \/ \E s \in Slots, u \in Users, id \in KnownStoryIds : DeleteStoryCheck(s, u, id)
    \/ \E s \in Slots : DeleteStoryDestroy(s)
    \/ \E s \in Slots : DeleteStoryRemove(s)

PostNext ==
    \/ \E s \in Slots, u \in Users : CreatePostUpload(s, u)
    \/ \E s \in Slots : CreatePostSave(s)
    \/ \E s \in Slots, u \in Users, id \in KnownPostIds : DeletePostCheck(s, u, id)
    \/ \E s \in Slots : DeletePostDestroy(s)
    \/ \E s \in Slots : DeletePostRemove(s)

LikeNext ==
    \/ \E s \in Slots, u \in Users, id \in KnownPostIds : LikeFind(s, u, id)
    \/ \E s \in Slots : LikeSave(s)
    \/ \E s \in Slots : LikeFindPost(s)
    \/ \E s \in Slots : LikeNotify(s)
    \/ \E s \in Slots, u \in Users, id \in KnownPostIds : Unlike(s, u, id)

CommentNext ==
    \/ \E s \in Slots, u \in Users, id \in KnownPostIds, text \in Texts :
            CommentSave(s, u, id, text)
    \/ \E s \in Slots : CommentFindPost(s)
    \/ \E s \in Slots : CommentNotify(s)

FollowNext ==
    \/ \E s \in Slots, u \in Users, v \in Users : FollowCheck(s, u, v)
    \/ \E s \in Slots : FollowSave(s)
    \/ \E s \in Slots : FollowNotify(s)

UnfollowNext ==
    \E s \in Slots, u \in Users, v \in Users : Unfollow(s, u, v)

KnownPostSegs == {ToString(i) : i \in KnownPostIds} \cup {"feed"}

ReadPostNext ==
    \E s \in Slots, u \in Users, seg \in KnownPostSegs, pageQ \in Pages, limitQ \in Limits :
        PostsGet(s, u, seg, pageQ, limitQ)

\* stories: creation, expiry, the owner's list, views
StoryNext ==
    \/ TimeNext
    \/ CreateStoryNext
    \/ ReadStoryNext
    \/ ViewNext

StorySpec == Init /\ [][StoryNext]_vars

\* stories as their owner's followers see them
FeedNext ==
    \/ TimeNext
    \/ \E s \in Slots, u \in Users : CreateStoryUpload(s, u)
    \/ \E s \in Slots : CreateStorySave(s)
    \/ ReadStoryNext
    \/ ViewNext
    \/ FollowNext

FeedSpec == Init /\ [][FeedNext]_vars

\* deletion of stories and posts
DeleteNext ==
    \/ CreateStoryNext
    \/ DeleteStoryNext
    \/ PostNext

DeleteSpec == Init /\ [][DeleteNext]_vars

\* likes, follows, views and their notifications
EngageNext ==
    \/ \E s \in Slots, u \in Users : CreatePostUpload(s, u)
    \/ \E s \in Slots : CreatePostSave(s)
    \/ \E s \in Slots, u \in Users : CreateStoryUpload(s, u)
    \/ \E s \in Slots : CreateStorySave(s)
    \/ ViewNext
    \/ LikeNext
    \/ CommentNext
    \/ FollowNext

EngageSpec == Init /\ [][EngageNext]_vars

\* likes and follows and their removal
RemovalNext ==
    \/ \E s \in Slots, u \in Users : CreatePostUpload(s, u)
    \/ \E s \in Slots : CreatePostSave(s)
    \/ LikeNext
    \/ FollowNext
    \/ UnfollowNext

RemovalSpec == Init /\ [][RemovalNext]_vars

\* the GET routes of the two routers, over stories and posts that come and go
ReadNext ==
    \/ \E s \in Slots, u \in Users : CreatePostUpload(s, u)
    \/ \E s \in Slots : CreatePostSave(s)
    \/ \E s \in Slots, u \in Users : CreateStoryUpload(s, u)
    \/ \E s \in Slots : CreateStorySave(s)
    \/ FollowNext
    \/ DeleteStoryNext
    \/ ReadStoryNext
    \/ ReadPostNext

ReadSpec == Init /\ [][ReadNext]_vars

\* a story from its creation to its sweep or its deletion
LifecycleNext ==
    \/ TimeNext
    \/ \E s \in Slots, u \in Users : CreateStoryUpload(s, u)
    \/ \E s \in Slots : CreateStorySave(s)
    \/ DeleteStoryNext

LifecycleSpec == Init /\ [][LifecycleNext]_vars

Next ==
    \/ TimeNext
    \/ CreateStoryNext
    \/ ReadStoryNext
    \/ ReadPostNext
    \/ ViewNext
    \/ DeleteStoryNext
    \/ PostNext
    \/ LikeNext
    \/ CommentNext
    \/ FollowNext
    \/ UnfollowNext

Spec == Init /\ [][Next]_vars

\* ===================================================================
\* Properties
\* ===================================================================

\* handler in slot s answers with status code in this step
Answers(s, code) ==
    /\ req[s].op # "idle"
    /\ req'[s] = IdleReq
    /\ resp' = [req[s] EXCEPT !.status = code]

\* a request is received and answered in one step (no await passed)
AnswersAtOnce == nreq' = nreq + 1 /\ req' = req

\* instants after t at which the read paths are evaluated
After(t) == {t + 1, t + Hour, t + Day} \cup {x \in {now} : x > t}

\* C1: recordView succeeds exactly when the story exists and is visible
\* (isActive and expiresAt > now, the predicate of the story list and the
\* feed) at the time of the call; otherwise it fails with 404 NotFound.
C1_ViewSucceedsIffVisible ==
    resp.op = "view" =>
        /\ resp.status = 200 <=>
                (resp.doc # <<>> /\ ActiveFilter(resp.doc[1], resp.at))
        /\ resp.status # 200 => resp.status = 404 /\ resp.pc = "check"

\* C2: at every time after S.expiresAt, story S is in no owner's story list
\* and in no stories feed and its view is rejected, whatever S.isActive is.
C2_ExpiredNeverVisible ==
    \A id \in DOMAIN stories :
        /\ \A t \in After(stories[id].expiresAt) :
            /\ \A u \in Users :
                  id \notin UserStories(u, t) /\ id \notin StoriesFeed(u, t)
            /\ ViewRejected(<<stories[id]>>, t)
        /\ resp.at > stories[id].expiresAt =>
            /\ resp.op \in {"userStories", "storiesFeed"} => id \notin resp.result
            /\ resp.op = "view" /\ resp.id = id => resp.status = 404

\* C2 witness: an expired story the sweep has not yet deactivated, whose
\* owner has a follower, and a view of it that was rejected.
C2_Witness ==
    \E id \in DOMAIN stories :
        /\ stories[id].isActive
        /\ now > stories[id].expiresAt
        /\ \E u \in Users : stories[id].userId \in FollowedIds(u)
        /\ resp.op = "view" /\ resp.id = id /\ resp.status = 404
        /\ resp.at > stories[id].expiresAt

\* C3: a story created at T has expiresAt = T + 24h and isActive = true and
\* is visible at every now with T <= now < T + 24h, however many sweeps
\* run; it is not visible at any time after T + 24h, swept or not.
C3_VisibleForTTL ==
    \A id \in DOMAIN stories :
        LET S == stories[id]
        IN /\ S.expiresAt = S.createdAt + 24 * Hour
           /\ S.createdAt <= now
           /\ now < S.createdAt + 24 * Hour =>
                /\ S.isActive = TRUE
                /\ id \in UserStories(S.userId, now)
                /\ ~ViewRejected(<<S>>, now)
           /\ now > S.createdAt + 24 * Hour =>
                /\ id \notin UserStories(S.userId, now)
                /\ \A u \in Users : id \notin StoriesFeed(u, now)

\* C3 witness: a sweep has run (it deactivated story a) at a time within
\* the lifetime of story b, and b is still visible.
C3_Witness ==
    \E a \in DOMAIN stories, b \in DOMAIN stories :
        /\ ~stories[a].isActive
        /\ stories[b].createdAt <= stories[a].expiresAt
        /\ now < stories[b].expiresAt
        /\ stories[b].isActive
        /\ b \in UserStories(stories[b].userId, now)

\* C4: the sweep is idempotent: running it twice with the same now gives
\* the store, and the set of inactive stories, that running it once gives.
Inactive(coll) == {id \in DOMAIN coll : ~coll[id].isActive}

C4_SweepIdempotent ==
    \A t \in {now} \cup {stories[id].expiresAt : id \in DOMAIN stories} :
        LET once == UpdateManyExpired(stories, t)
            twice == UpdateManyExpired(once, t)
        IN twice = once /\ Inactive(twice) = Inactive(once)

\* C4 witness: the job is due and has just deactivated a story, so a
\* second run at the same now meets an already swept store.
C4_Witness ==
    /\ CronDue(now)
    /\ \E id \in DOMAIN stories :
        ~stories[id].isActive /\ stories[id].expiresAt <= now
    /\ stories = UpdateManyExpired(stories, now)

\* C5: the sweep sets isActive = false on exactly the stories with
\* expiresAt <= now; it removes no story, calls no media delete, leaves
\* the other stories and every other collection unchanged, and a swept
\* story is still found by its id.
C5_SweepFrame ==
    [][SweepExpired =>
        /\ DOMAIN stories' = DOMAIN stories
        /\ \A id \in DOMAIN stories :
            /\ stories[id].expiresAt <= now =>
                stories'[id] = [stories[id] EXCEPT !.isActive = FALSE]
            /\ stories[id].expiresAt > now => stories'[id] = stories[id]
            /\ FindStoryById(id)' # <<>>
        /\ UNCHANGED <<posts, storyViews, likes, comments, follows, notifications>>
        /\ UNCHANGED <<uploads, media, destroyCalls>>
    ]_vars

\* C5 witness: a story deactivated by the sweep is still in the store with
\* its media, next to a story that has not expired and is still active.
C5_Witness ==
    \E a \in DOMAIN stories, b \in DOMAIN stories :
        /\ ~stories[a].isActive /\ stories[a].expiresAt <= now
        /\ stories[a].mediaId \in media
        /\ stories[a].mediaId \notin destroyCalls
        /\ FindStoryById(a) # <<>>
        /\ stories[b].expiresAt > now /\ stories[b].isActive

Deletes == {"deleteStory", "deletePost"}

\* C6: deleteStory and deletePost remove a record only for its owner: a
\* missing record gives 404, a requester other than the owner gives 403,
\* and in both cases no media delete is invoked and the store is unchanged;
\* no record is ever removed by a non-owner.
C6_OnlyOwnerDeletes ==
    /\ [](resp.op \in Deletes =>
            /\ resp.status = 404 <=> resp.doc = <<>>
            /\ resp.status = 403 <=>
                    (resp.doc # <<>> /\ resp.doc[1].userId # resp.userId)
            /\ resp.status \in {403, 404} => resp.pc = "check")
    /\ [][/\ \A id \in DOMAIN stories \ DOMAIN stories' :
                \E s \in Slots :
                    /\ At(s, "deleteStory", "remove")
                    /\ req[s].id = id
                    /\ req[s].userId = stories[id].userId
          /\ \A id \in DOMAIN posts \ DOMAIN posts' :
                \E s \in Slots :
                    /\ At(s, "deletePost", "remove")
                    /\ req[s].id = id
                    /\ req[s].userId = posts[id].userId
          /\ (AnswersAtOnce /\ resp'.op \in Deletes /\ resp'.status \in {403, 404}) =>
                UNCHANGED <<storeVars, mediaVars>>
       ]_vars

\* C6 witness: a delete of an existing story by another user was refused
\* with 403; the story and its media are still there and destroy was
\* never invoked.
C6_Witness ==
    /\ resp.op = "deleteStory" /\ resp.status = 403
    /\ resp.id \in DOMAIN stories
    /\ stories[resp.id].userId # resp.userId
    /\ stories[resp.id].mediaId \in media
    /\ destroyCalls = {}

\* C7: a failure of the media delegate's delete is not fatal for the
\* owner's delete request: the record is removed and the request succeeds.
\* (A delete request answered at its destroy call is one whose destroy
\* call failed.)
C7_DestroyFailureNonFatal ==
    (resp.op \in Deletes /\ resp.pc = "destroy") =>
        /\ resp.status = 200
        /\ resp.op = "deleteStory" => resp.id \notin DOMAIN stories
        /\ resp.op = "deletePost" => resp.id \notin DOMAIN posts

\* C8, as stated: when deleteStory fails between the media delete and the
\* record delete, the media object still exists and no Story record
\* references it.
C8_FailureLeavesOrphanedMedia ==
    (resp.op = "deleteStory" /\ resp.pc = "remove" /\ resp.status = 500) =>
        /\ resp.doc[1].mediaId \in media
        /\ resp.id \notin DOMAIN stories

\* C8, amended: when deleteStory fails between its two steps, the media
\* object is already deleted and the failing request removes no Story
\* record: a record that is still stored keeps its dangling media
\* reference and is returned to viewers as before.
C8_FailureLeavesDanglingRecord ==
    [][\A s \in Slots :
        (At(s, "deleteStory", "remove") /\ Answers(s, 500)) =>
            /\ req[s].doc[1].mediaId \notin media'
            /\ req[s].doc[1].mediaId \in destroyCalls'
            /\ stories' = stories
            /\ \A u \in Users : UserStories(u, now)' = UserStories(u, now)
    ]_vars

\* C8 witness: the record delete failed after the media delete; the story
\* is still stored and listed, and its media is gone.
C8_Witness ==
    /\ resp.op = "deleteStory" /\ resp.pc = "remove" /\ resp.status = 500
    /\ resp.id \in DOMAIN stories
    /\ resp.id \in UserStories(resp.userId, now)
    /\ stories[resp.id].mediaId \notin media

\* C9: at most one Like row exists per (postId, userId), also when like
\* requests for the same pair interleave, and a like request that inserts
\* no row is rejected with 400 Conflict.
C9_OneLikeLoserGetsConflict ==
    /\ \A k \in DOMAIN likes : likes[k] <= 1
    /\ (resp.op = "like" /\ resp.pc \in {"find", "save"}) => resp.status = 400

\* whether the handler of r has inserted its engagement row
Persisted(r) ==
    \/ r.op = "like" /\ r.pc \in {"findPost", "notify"}
    \/ r.op = "follow" /\ r.pc = "notify"
    \/ r.op = "view" /\ r.pc = "notify"

ExpectedNotif(r) ==
    IF r.op = "like" THEN Notif(r.doc[1].userId, "like", r.userId, r.id, 0)
    ELSE IF r.op = "follow" THEN Notif(r.target, "follow", r.userId, 0, 0)
    ELSE Notif(r.doc[1].userId, "story_view", r.userId, 0, r.id)

\* C10: a like, follow or story-view request that returns success has
\* appended the notification for the owner, from the actor, of its type;
\* one that does not return success has appended none and has persisted
\* no engagement row.
C10_NotificationPerSuccess ==
    resp.op \in {"like", "follow", "view"} =>
        /\ resp.status = 200 =>
            /\ Persisted(resp)
            /\ \E i \in DOMAIN notifications : notifications[i] = ExpectedNotif(resp)
        /\ resp.status # 200 => ~Persisted(resp)

\* C11: a comment request with a well-formed postId and a non-empty text
\* always succeeds: it answers 201 with the created comment, the comment
\* is stored, and a comment notification to the post's owner is appended.
C11_CommentAlwaysSucceeds ==
    resp.op = "comment" =>
        /\ resp.status = 201
        /\ \E c \in resp.result : \E i \in DOMAIN comments : comments[i] = c
        /\ resp.doc # <<>>
        /\ \E i \in DOMAIN notifications :
              notifications[i] = Notif(resp.doc[1].userId, "comment", resp.userId, resp.id, 0)

\* C12: the follow graph has no self-edge and at most one edge per ordered
\* pair, under any interleaving; a follow request that succeeds has
\* inserted its edge and its notification, and one that does not succeed
\* is the self-follow or the follow of an existing edge, rejected with 400
\* at the check, before anything is written.
C12_FollowGraphAndConflict ==
    /\ \A u \in Users : follows[<<u, u>>] = 0
    /\ \A k \in DOMAIN follows : follows[k] <= 1
    /\ resp.op = "follow" =>
        /\ resp.status = 200 =>
              /\ follows[<<resp.userId, resp.target>>] = 1
              /\ \E i \in DOMAIN notifications :
                    notifications[i] = Notif(resp.target, "follow", resp.userId, 0, 0)
        /\ resp.status # 200 => resp.status = 400 /\ resp.pc = "find"

\* the pair an unlike or unfollow response is about
RemovedKey(r) == IF r.op = "unlike" THEN <<r.id, r.userId>> ELSE <<r.userId, r.target>>

StoriesFeedRequest(r) ==
    r.op = "storiesFeed" \/ (r.op = "userStories" /\ r.target = "feed")

\* C14: a stories-feed request is answered with exactly the stories that
\* are visible at that time and whose owner the viewer follows (the empty
\* set, not an error, when the viewer follows nobody); once the owner's
\* delete of a story has succeeded, the media delete was invoked with the
\* story's mediaId and the story is in no feed.
C14_StoriesFeedContents ==
    /\ StoriesFeedRequest(resp) =>
        /\ resp.op = "storiesFeed"
        /\ resp.status = 200
        /\ resp.result = StoriesFeed(resp.userId, resp.at)
        /\ FollowedIds(resp.userId) = {} => resp.result = {}
    /\ (resp.op = "deleteStory" /\ resp.status = 200) =>
        /\ resp.doc[1].mediaId \in destroyCalls
        /\ \A u \in Users : resp.id \notin StoriesFeed(u, now)

\* the answer to a GET of the path /feed of the posts router
PostsFeedRequest(r) ==
    r.op = "postsFeed" \/ (r.op = "getPost" /\ r.target = "feed")

\* C15: a posts-feed request for page >= 1 and pageSize >= 1 is answered
\* with the posts of the users the viewer follows that stand at positions
\* (page-1)*pageSize + 1 .. page*pageSize when ordered by creation time
\* descending, whatever their age; with the empty list, not an error,
\* when the viewer follows no one.
C15_PostsFeedPage ==
    PostsFeedRequest(resp) =>
        /\ resp.op = "postsFeed"
        /\ resp.status = 200
        /\ LET M == FeedPosts(resp.userId)
               page == resp.doc
               first == (resp.page - 1) * resp.limit
               rest == IF Cardinality(M) > first THEN Cardinality(M) - first ELSE 0
           IN /\ Len(page) = IF rest < resp.limit THEN rest ELSE resp.limit
              /\ \A i \in DOMAIN page : page[i] \in M
              /\ \A i, j \in DOMAIN page : i # j => page[i] # page[j]
              /\ \A i \in DOMAIN page :
                    /\ Cardinality({m \in M : posts[m].createdAt > posts[page[i]].createdAt})
                            <= first + i - 1
                    /\ Cardinality({m \in M : posts[m].createdAt >= posts[page[i]].createdAt})
                            >= first + i
              /\ FollowedIds(resp.userId) = {} => page = <<>>

\* C16, as stated: Swept is a terminal state: a story with isActive =
\* false is never reactivated and undergoes no further transition (it
\* stays stored, unchanged).
C16_SweptIsTerminal ==
    [][\A id \in DOMAIN stories :
            ~stories[id].isActive =>
                id \in DOMAIN stories' /\ stories'[id] = stories[id]
    ]_vars

\* C16, amended: a story is created with isActive = true; its only
\* transitions are the sweep's true -> false, once expiresAt <= now, and
\* its removal by its owner's delete, which does not look at expiresAt or
\* isActive and so is open to a created and to a swept story alike; a
\* swept story is never reactivated or changed, and a removed story never
\* comes back (a record enters the store only from a create request, under
\* an id that was never stored).
C16_Lifecycle ==
    /\ [](/\ \A s \in Slots : At(s, "createStory", "save") =>
                /\ req[s].id \notin DOMAIN stories
                /\ req[s].doc[1].isActive = TRUE
                /\ \A r \in Slots \ {s} :
                        At(r, "createStory", "save") => req[r].id # req[s].id
          /\ (resp.op = "deleteStory" /\ resp.pc = "check") =>
                /\ resp.status \in {403, 404}
                /\ resp.status = 403 => resp.doc[1].userId # resp.userId
                /\ resp.status = 404 => resp.doc = <<>>)
    /\ [][/\ \A id \in DOMAIN stories \cap DOMAIN stories' :
                \/ stories'[id] = stories[id]
                \/ /\ stories[id].isActive
                   /\ stories[id].expiresAt <= now
                   /\ stories'[id] = [stories[id] EXCEPT !.isActive = FALSE]
          /\ \A id \in DOMAIN stories \ DOMAIN stories' :
                \E s \in Slots :
                    /\ At(s, "deleteStory", "remove")
                    /\ req[s].id = id
                    /\ req[s].userId = stories[id].userId
          /\ \A id \in DOMAIN stories' \ DOMAIN stories :
                /\ \E s \in Slots : At(s, "createStory", "save") /\ req[s].id = id
                /\ stories'[id].isActive = TRUE
       ]_vars

\* C16 witness: the owner's delete has removed a story that the sweep had
\* deactivated before the delete request read it.
C16_Witness ==
    /\ resp.op = "deleteStory" /\ resp.status = 200
    /\ resp.doc[1].isActive = FALSE
    /\ resp.doc[1].expiresAt <= now
    /\ resp.id \notin DOMAIN stories

\* C17: a GET of the path /feed is answered by the feed handler of its
\* router: neither GET /:userId of the stories router nor GET /:id of the
\* posts router answers it with its parameter bound to "feed".
C17_FeedNotShadowed ==
    /\ StoriesFeedRequest(resp) => resp.op = "storiesFeed"
    /\ PostsFeedRequest(resp) => resp.op = "postsFeed"
====
